---- MODULE Spec2Model ----
(***************************************************************************)
(* HMSRoomSetup: the component that wires the SDK's lifecycle events       *)
(* (ON_ERROR, ON_PREVIEW, ON_JOIN, ON_PERMISSIONS_REQUESTED, poll and      *)
(* whiteboard updates) into the redux store and the component state        *)
(* (loading, peerTrackNodes).                                              *)
(*                                                                         *)
(* One action is one JavaScript task: an SDK callback, a user press, a     *)
(* promise continuation, or the flush of a React effect.  A handler        *)
(* registered by an effect sees the values of the render that created it   *)
(* (its closure); the effect only re-registers when React flushes it, a    *)
(* task of its own.                                                        *)
(***************************************************************************)
EXTENDS Integers, Sequences, FiniteSets, TLC

VARIABLES
  mounted,                 \* HMSRoomSetup is mounted
  isAndroid,               \* Platform.OS === 'android'
  meetingState,            \* state.app.meetingState
  loading,                 \* useState(false)
  peerTrackNodes,          \* useState<PeerTrackNode[]>([])
  localPeerTrackNode,      \* state.app.localPeerTrackNode
  miniViewPeerTrackNode,   \* state.app.miniViewPeerTrackNode
  hmsLocalPeer,            \* state.hmsStates.localPeer
  hmsRoom,                 \* state.hmsStates.room (the room object it holds)
  showChatView,            \* state.app.showChatView
  startingHLSStream,       \* state.app.startingHLSStream
  hlsPending,              \* hmsInstance.startHLSStreaming() promises not settled
  ignoreHLSStreamPromise,  \* useRef(false)
  notifications,           \* state.app.notifications
  alerts,                  \* Alert.alert dialogs on screen, oldest first
  errorListener,           \* ON_ERROR slot of the SDK: the closure of hmsErrorHandler
  previewListener,         \* ON_PREVIEW slot of the SDK
  joinListener,            \* ON_JOIN slot of the SDK
  permissionsListener,     \* ON_PERMISSIONS_REQUESTED slot of the SDK
  pollSubscriptions,       \* live poll update subscriptions: the closures of the callbacks
  whiteboardSubscriptions, \* number of live whiteboard update subscriptions
  whiteboard,              \* state.hmsStates.whiteboard
  polls,                   \* state.polls.polls: the poll ids in the store
  cuedPollIds,             \* state.polls.cuedPollIds
  now,                     \* Date.now(), in ms
  joinPc,                  \* joinMeeting() calls at their awaits (getConfig, setAlwaysScreenOn)
  previewPc,               \* previewMeeting() calls awaiting getConfig()
  didInitMeetingAction,    \* useRef(false)
  initPc,                  \* handleMeetingPreviewOrJoin: "idle", "getConfig", "done"
  autoInitDeps,            \* the meetingEnded the automatic preview-or-join effect last ran with
  userNameValid,           \* state.user.userName.length > 0
  last                     \* the task that ran last: its event, inputs and outputs

vars == <<mounted, isAndroid, meetingState, loading, peerTrackNodes,
          localPeerTrackNode, miniViewPeerTrackNode, hmsLocalPeer, hmsRoom,
          showChatView, startingHLSStream, hlsPending, ignoreHLSStreamPromise,
          notifications, alerts, errorListener, previewListener, joinListener,
          permissionsListener, pollSubscriptions, whiteboardSubscriptions,
          whiteboard, polls, cuedPollIds, now, joinPc, previewPc,
          didInitMeetingAction, initPc, autoInitDeps, userNameValid,
          last>>

----------------------------------------------------------------------------
(* Bounds *)

MaxNotifications == 2     \* notifications kept in the queue
MaxAlerts == 1            \* dialogs on screen at once
MaxNodes == 2             \* nodes the room listeners add to peerTrackNodes
MaxPending == 1           \* joinMeeting(), previewMeeting(), startHLSStreaming() calls in flight, each
MaxTicks == 3             \* clock steps of TickMs

----------------------------------------------------------------------------
(* Values *)

None == "None"

NOT_JOINED == "NOT_JOINED"
IN_PREVIEW == "IN_PREVIEW"
IN_MEETING == "IN_MEETING"
MEETING_ENDED == "MEETING_ENDED"

MeetingState == {NOT_JOINED, IN_PREVIEW, IN_MEETING, MEETING_ENDED}

ERROR == "ERROR"
TERMINAL_ERROR == "TERMINAL_ERROR"
POLLS_AND_QUIZZES == "POLLS_AND_QUIZZES"

NotificationTypes == {ERROR, TERMINAL_ERROR, POLLS_AND_QUIZZES}

TerminalExceptionCodes == {4005, 1003, 2000}

ErrorCodes == {1003, 3001}

HMSException == [isTerminal : BOOLEAN, code : ErrorCodes]

\* the peer object a node of the room listeners holds, and the one an
\* event's data.room holds
OldPeer == "old"
NewPeer == "new"

LocalPeerID == "local"
RemotePeerID == "remote"
TrackIDs == {"t1", "t2"}

PollDelayMs == 20000

\* the clock advances in steps of half the poll delay
TickMs == PollDelayMs \div 2

\* poll.startedAt: absent (NoStart), or a time in ms
NoStart == 0 - 1
StartTimes == {NoStart, 0, TickMs}

PollIDs == {"p1", "p2"}
PollUpdateTypes == {"started", "stopped", "resultsupdated"}

\* the local peer of data.room, with what its role decides
\* (isPublishingAllowed, selectIsHLSViewer)
LocalPeers ==
  [id : {LocalPeerID}, ver : {NewPeer}, videoTrack : TrackIDs \cup {None},
   canPublish : BOOLEAN, hlsViewer : BOOLEAN]

\* what onJoinHandler reads from reduxStore.getState(): enable_local_tile_inset,
\* the overlay chat's initial state, selectShouldGoLive
JoinConfigs == [inset : BOOLEAN, chatOpen : BOOLEAN, goLive : BOOLEAN]

\* no local peer in the store yet, no node in a slot of the store
NoPeer ==
  [id |-> None, ver |-> None, videoTrack |-> None, canPublish |-> FALSE,
   hlsViewer |-> FALSE]

NoNode ==
  [id |-> <<None, None>>, peer |-> None, ver |-> None, track |-> None]

PeerTrackNode(id, peerId, ver, track) ==
  [id |-> id, peer |-> peerId, ver |-> ver, track |-> track]

createPeerTrackNode(peer, track) ==
  PeerTrackNode(<<peer.id, track>>, peer.id, peer.ver, track)

\* the (peer, track) pair a node stands for
NodeKey(node) == <<node.peer, node.track>>

----------------------------------------------------------------------------
(* peerTrackNodeUtils *)

peerTrackNodeExistForPeerAndTrack(nodes, peer, track) ==
  \E i \in DOMAIN nodes : nodes[i].peer = peer.id /\ nodes[i].track = track

peerTrackNodeExistForPeer(nodes, peer) ==
  \E i \in DOMAIN nodes : nodes[i].peer = peer.id

replacePeerTrackNodesWithTrack(nodes, peer, track) ==
  [i \in DOMAIN nodes |->
     IF nodes[i].peer = peer.id /\ nodes[i].track = track
     THEN [nodes[i] EXCEPT !.ver = peer.ver, !.track = track]
     ELSE nodes[i]]

replacePeerTrackNodes(nodes, peer) ==
  [i \in DOMAIN nodes |->
     IF nodes[i].peer = peer.id
     THEN [nodes[i] EXCEPT !.ver = peer.ver]
     ELSE nodes[i]]

----------------------------------------------------------------------------
(* What the render derives from the store *)

meetingJoined == meetingState = IN_MEETING
previewing == meetingState = IN_PREVIEW
meetingEnded == meetingState = MEETING_ENDED

\* useIsHLSViewer(): the selector of onJoinHandler on the store's local peer
isHLSViewer == hmsLocalPeer # NoPeer /\ hmsLocalPeer.hlsViewer

\* the closure of hmsErrorHandler: the render's previewing and meetingJoined
ErrorClosure ==
  [on |-> TRUE, previewing |-> previewing, meetingJoined |-> meetingJoined]

\* the ON_ERROR slot with no handler in it
NoListener == [on |-> FALSE, previewing |-> FALSE, meetingJoined |-> FALSE]

\* the closure of the poll update callback: the render's isHLSViewer
PollClosure == [isHLSViewer |-> isHLSViewer]

\* what a task did: the event, its inputs, the closure values it decided on
\* (for ON_ERROR also the meeting state it found, at), and its outputs (UI and
\* SDK calls, redux actions in dispatch order; for ON_JOIN also every update
\* the handler makes, in program order: steps)
NoTask ==
  [ev |-> "mount", at |-> NOT_JOINED, terminal |-> FALSE, joined |-> FALSE,
   previewing |-> FALSE, wasLoading |-> FALSE, viewer |-> FALSE,
   wasViewer |-> FALSE, poll |-> None, type |-> None, known |-> FALSE,
   old |-> FALSE, errAt |-> None, inset |-> FALSE, out |-> {},
   dispatched |-> <<>>, steps |-> <<>>]

Task(ev) == [NoTask EXCEPT !.ev = ev]

----------------------------------------------------------------------------
(* useLeaveMethods *)

leave == meetingState' = MEETING_ENDED

destroy == meetingState' = MEETING_ENDED

----------------------------------------------------------------------------
(* ON_ERROR *)

terminalError(error) ==
  error.isTerminal \/ error.code \in TerminalExceptionCodes

\* the notification hmsErrorHandler queues during a meeting
notificationPayload(error) ==
  [type |-> IF terminalError(error) THEN TERMINAL_ERROR ELSE ERROR,
   poll |-> None]

\* the dialog of a terminal error, with the previewing of the handler's closure
\* (at: the meeting state when the error arrived)
TerminalAlert(h) ==
  [kind |-> "error", previewing |-> h.previewing, at |-> meetingState]

\* ErrorSurface with a dialog for every error outside a meeting
ErrorSurfaceAlwaysAlert(h, terminal) ==
  IF h.meetingJoined THEN "notification" ELSE "alert"

\* how hmsErrorHandler, with closure h, surfaces an error
ErrorSurface(h, terminal) ==
  IF h.meetingJoined THEN "notification"
  ELSE IF terminal THEN "alert"
  ELSE "toast"

\* hmsErrorHandler, as registered with closure h
hmsErrorHandler(h, error) ==
  /\ last' = [Task("ON_ERROR") EXCEPT
                !.at = meetingState, !.wasLoading = loading,
                !.terminal = terminalError(error),
                !.joined = h.meetingJoined, !.previewing = h.previewing,
                !.out = {ErrorSurface(h, terminalError(error))}
                        \ {"notification"},
                !.dispatched =
                  IF ErrorSurface(h, terminalError(error)) = "notification"
                  THEN <<"addNotification">> ELSE <<>>]
  /\ CASE ErrorSurface(h, terminalError(error)) = "notification" ->
            /\ Len(notifications) < MaxNotifications
            /\ notifications' =
                 Append(notifications, notificationPayload(error))
            /\ UNCHANGED <<loading, alerts>>
       [] ErrorSurface(h, terminalError(error)) = "alert" ->
            /\ loading' = FALSE
            /\ Len(alerts) < MaxAlerts
            /\ alerts' = Append(alerts, TerminalAlert(h))
            /\ UNCHANGED notifications
       [] ErrorSurface(h, terminalError(error)) = "toast" ->
            /\ loading' = FALSE
            /\ UNCHANGED <<notifications, alerts>>

\* the SDK emits ON_ERROR: the handler in the slot runs
OnError(error) ==
  /\ errorListener.on
  /\ hmsErrorHandler(errorListener, error)
  /\ UNCHANGED <<mounted, isAndroid, meetingState, peerTrackNodes,
                 localPeerTrackNode, miniViewPeerTrackNode, hmsLocalPeer,
                 hmsRoom, showChatView, startingHLSStream, hlsPending,
                 ignoreHLSStreamPromise, errorListener, previewListener,
                 joinListener, permissionsListener, pollSubscriptions,
                 whiteboardSubscriptions, whiteboard, polls, cuedPollIds, now,
                 joinPc, previewPc, didInitMeetingAction, initPc,
                 userNameValid,
                 autoInitDeps>>

\* AlertOnPress with the branches of the terminal error's dialog swapped
AlertOnPressSwapped(a) ==
  CASE a.kind = "error" -> IF a.previewing THEN "destroy" ELSE "leave"
    [] a.kind = "join" -> "leave"
    [] a.kind = "preview" -> "destroy"

\* what the Leave button of a dialog calls
AlertOnPress(a) ==
  CASE a.kind = "error" -> IF a.previewing THEN "leave" ELSE "destroy"
    [] a.kind = "join" -> "leave"
    [] a.kind = "preview" -> "destroy"

\* the user presses Leave on the dialog in front
PressAlertLeave ==
  /\ alerts # <<>>
  /\ alerts' = Tail(alerts)
  /\ IF AlertOnPress(Head(alerts)) = "leave" THEN leave ELSE destroy
  /\ last' = [Task("ALERT_LEAVE") EXCEPT
                !.out = {AlertOnPress(Head(alerts))},
                !.terminal = Head(alerts).kind = "error",
                !.previewing = Head(alerts).previewing,
                !.errAt = Head(alerts).at]
  /\ UNCHANGED <<mounted, isAndroid, loading, peerTrackNodes,
                 localPeerTrackNode, miniViewPeerTrackNode, hmsLocalPeer,
                 hmsRoom, showChatView, startingHLSStream, hlsPending,
                 ignoreHLSStreamPromise, notifications, errorListener,
                 previewListener, joinListener, permissionsListener,
                 pollSubscriptions, whiteboardSubscriptions, whiteboard, polls,
                 cuedPollIds, now, joinPc, previewPc, didInitMeetingAction,
                 initPc, userNameValid,
                 autoInitDeps>>

\* the error effect runs again after a render with other previewing or
\* meetingJoined: its cleanup empties the slot, then the new handler is added
ErrorEffect ==
  /\ mounted
  /\ errorListener # ErrorClosure
  /\ errorListener' = ErrorClosure
  /\ last' = Task("ERROR_EFFECT")
  /\ UNCHANGED <<mounted, isAndroid, meetingState, loading, peerTrackNodes,
                 localPeerTrackNode, miniViewPeerTrackNode, hmsLocalPeer,
                 hmsRoom, showChatView, startingHLSStream, hlsPending,
                 ignoreHLSStreamPromise, notifications, alerts,
                 previewListener, joinListener, permissionsListener,
                 pollSubscriptions, whiteboardSubscriptions, whiteboard, polls,
                 cuedPollIds, now, joinPc, previewPc, didInitMeetingAction,
                 initPc, userNameValid,
                 autoInitDeps>>

----------------------------------------------------------------------------
(* ON_PREVIEW *)

\* onPreviewHandler without its changeMeetingState
onPreviewHandlerNoState(peer) ==
  /\ loading' = FALSE
  /\ hmsRoom' = peer.ver
  /\ hmsLocalPeer' = peer
  /\ meetingState' = meetingState
  /\ last' = [Task("ON_PREVIEW") EXCEPT
                !.dispatched = <<"setHMSRoomState", "setHMSLocalPeerState">>]

onPreviewHandler(peer) ==
  /\ loading' = FALSE
  /\ hmsRoom' = peer.ver
  /\ hmsLocalPeer' = peer
  /\ meetingState' = IN_PREVIEW
  /\ last' = [Task("ON_PREVIEW") EXCEPT
                !.dispatched = <<"setHMSRoomState", "setHMSLocalPeerState",
                                 "changeMeetingState">>]

OnPreview(peer) ==
  /\ previewListener
  /\ onPreviewHandler(peer)
  /\ UNCHANGED <<mounted, isAndroid, peerTrackNodes, localPeerTrackNode,
                 miniViewPeerTrackNode, showChatView, startingHLSStream,
                 hlsPending, ignoreHLSStreamPromise, notifications, alerts,
                 errorListener, previewListener, joinListener,
                 permissionsListener, pollSubscriptions,
                 whiteboardSubscriptions, whiteboard, polls, cuedPollIds, now,
                 joinPc, previewPc, didInitMeetingAction, initPc,
                 userNameValid,
                 autoInitDeps>>

----------------------------------------------------------------------------
(* ON_JOIN *)

\* canCreateTile without the look at the HLS viewer role
canCreateTilePublishOnly(peer) == peer.canPublish

canCreateTile(peer) == peer.canPublish /\ ~peer.hlsViewer

\* JoinUpdater without the case of a node of the same peer and another track
JoinUpdaterNoPeerCase(prevPeerTrackNodes, peer, track, enableLocalTileInset) ==
  IF track # None
     /\ peerTrackNodeExistForPeerAndTrack(prevPeerTrackNodes, peer, track)
  THEN replacePeerTrackNodesWithTrack(prevPeerTrackNodes, peer, track)
  ELSE IF ~enableLocalTileInset /\ peer.canPublish /\ ~peer.hlsViewer
  THEN <<createPeerTrackNode(peer, track)>> \o prevPeerTrackNodes
  ELSE prevPeerTrackNodes

\* JoinUpdater with the new node put last
JoinUpdaterAppends(prevPeerTrackNodes, peer, track, enableLocalTileInset) ==
  IF track # None
     /\ peerTrackNodeExistForPeerAndTrack(prevPeerTrackNodes, peer, track)
  THEN replacePeerTrackNodesWithTrack(prevPeerTrackNodes, peer, track)
  ELSE IF peerTrackNodeExistForPeer(prevPeerTrackNodes, peer)
  THEN replacePeerTrackNodes(prevPeerTrackNodes, peer)
  ELSE IF ~enableLocalTileInset /\ peer.canPublish /\ ~peer.hlsViewer
  THEN prevPeerTrackNodes \o <<createPeerTrackNode(peer, track)>>
  ELSE prevPeerTrackNodes

\* the updater onJoinHandler passes to setPeerTrackNodes
JoinUpdater(prevPeerTrackNodes, peer, track, enableLocalTileInset) ==
  IF track # None
     /\ peerTrackNodeExistForPeerAndTrack(prevPeerTrackNodes, peer, track)
  THEN replacePeerTrackNodesWithTrack(prevPeerTrackNodes, peer, track)
  ELSE IF peerTrackNodeExistForPeer(prevPeerTrackNodes, peer)
  THEN replacePeerTrackNodes(prevPeerTrackNodes, peer)
  ELSE IF ~enableLocalTileInset /\ canCreateTile(peer)
  THEN <<createPeerTrackNode(peer, track)>> \o prevPeerTrackNodes
  ELSE prevPeerTrackNodes

\* the reducer of updateLocalPeerTrackNode
updateLocalPeerTrackNode(node, peer, track) ==
  [node EXCEPT !.peer = peer.id, !.ver = peer.ver, !.track = track]

\* the redux actions onJoinHandler dispatches, in order
JoinDispatches(peer, cfg) ==
  (IF cfg.chatOpen THEN <<"SET_SHOW_CHAT_VIEW">> ELSE <<>>)
  \o (IF canCreateTile(peer)
      THEN <<IF localPeerTrackNode # NoNode
             THEN "updateLocalPeerTrackNode" ELSE "setLocalPeerTrackNode">>
           \o (IF cfg.inset THEN <<"setMiniViewPeerTrackNode">> ELSE <<>>)
      ELSE <<>>)
  \o <<"setHMSRoomState", "setHMSLocalPeerState", "setInitialRole">>
  \o (IF cfg.goLive THEN <<"changeStartingHLSStream">> ELSE <<>>)
  \o <<"changeMeetingState">>

\* JoinSteps with the switch to IN_MEETING ahead of the batch
JoinStepsStateFirst(peer, cfg) ==
  <<"clearConfig", "setLoading", "changeMeetingState">>
  \o (IF cfg.chatOpen THEN <<"SET_SHOW_CHAT_VIEW">> ELSE <<>>)
  \o (IF canCreateTile(peer)
      THEN <<IF localPeerTrackNode # NoNode
             THEN "updateLocalPeerTrackNode" ELSE "setLocalPeerTrackNode">>
           \o (IF cfg.inset THEN <<"setMiniViewPeerTrackNode">> ELSE <<>>)
      ELSE <<>>)
  \o <<"setHMSRoomState", "setHMSLocalPeerState", "setInitialRole",
       "setPeerTrackNodes">>
  \o (IF cfg.goLive THEN <<"changeStartingHLSStream">> ELSE <<>>)

\* every update onJoinHandler makes (component state and store), in program
\* order
JoinSteps(peer, cfg) ==
  <<"clearConfig", "setLoading">>
  \o (IF cfg.chatOpen THEN <<"SET_SHOW_CHAT_VIEW">> ELSE <<>>)
  \o (IF canCreateTile(peer)
      THEN <<IF localPeerTrackNode # NoNode
             THEN "updateLocalPeerTrackNode" ELSE "setLocalPeerTrackNode">>
           \o (IF cfg.inset THEN <<"setMiniViewPeerTrackNode">> ELSE <<>>)
      ELSE <<>>)
  \o <<"setHMSRoomState", "setHMSLocalPeerState", "setInitialRole",
       "setPeerTrackNodes">>
  \o (IF cfg.goLive THEN <<"changeStartingHLSStream">> ELSE <<>>)
  \o <<"changeMeetingState">>

onJoinHandler(peer, cfg) ==
  /\ loading' = FALSE
  /\ showChatView' = (showChatView \/ cfg.chatOpen)
  /\ localPeerTrackNode' =
       IF canCreateTile(peer)
       THEN IF localPeerTrackNode # NoNode
            THEN updateLocalPeerTrackNode(localPeerTrackNode, peer,
                                          peer.videoTrack)
            ELSE createPeerTrackNode(peer, peer.videoTrack)
       ELSE localPeerTrackNode
  /\ miniViewPeerTrackNode' =
       IF canCreateTile(peer) /\ cfg.inset
       THEN createPeerTrackNode(peer, peer.videoTrack)
       ELSE miniViewPeerTrackNode
  /\ hmsRoom' = peer.ver
  /\ hmsLocalPeer' = peer
  /\ peerTrackNodes' =
       JoinUpdater(peerTrackNodes, peer, peer.videoTrack, cfg.inset)
  /\ IF cfg.goLive
     THEN /\ hlsPending < MaxPending
          /\ startingHLSStream' = TRUE
          /\ hlsPending' = hlsPending + 1
     ELSE UNCHANGED <<startingHLSStream, hlsPending>>
  /\ meetingState' = IN_MEETING
  /\ last' = [Task("ON_JOIN") EXCEPT
                !.out = {"clearConfig"}
                        \cup (IF cfg.goLive THEN {"startHLSStreaming"} ELSE {}),
                !.inset = cfg.inset,
                !.dispatched = JoinDispatches(peer, cfg),
                !.steps = JoinSteps(peer, cfg)]

OnJoin(peer, cfg) ==
  /\ joinListener
  /\ onJoinHandler(peer, cfg)
  /\ UNCHANGED <<mounted, isAndroid, ignoreHLSStreamPromise, notifications,
                 alerts, errorListener, previewListener, joinListener,
                 permissionsListener, pollSubscriptions,
                 whiteboardSubscriptions, whiteboard, polls, cuedPollIds, now,
                 joinPc, previewPc, didInitMeetingAction, initPc,
                 userNameValid,
                 autoInitDeps>>

\* hmsInstance.startHLSStreaming() resolves
HLSStartResolved ==
  /\ hlsPending > 0
  /\ hlsPending' = hlsPending - 1
  /\ last' = Task("HLS_STARTED")
  /\ UNCHANGED <<mounted, isAndroid, meetingState, loading, peerTrackNodes,
                 localPeerTrackNode, miniViewPeerTrackNode, hmsLocalPeer,
                 hmsRoom, showChatView, startingHLSStream,
                 ignoreHLSStreamPromise, notifications, alerts, errorListener,
                 previewListener, joinListener, permissionsListener,
                 pollSubscriptions, whiteboardSubscriptions, whiteboard, polls,
                 cuedPollIds, now, joinPc, previewPc, didInitMeetingAction,
                 initPc, userNameValid,
                 autoInitDeps>>

\* HLSStartRejected without the look at ignoreHLSStreamPromise
HLSStartRejectedNoIgnore ==
  /\ hlsPending > 0
  /\ hlsPending' = hlsPending - 1
  /\ startingHLSStream' = FALSE
  /\ last' = [Task("HLS_FAILED") EXCEPT
                !.dispatched = <<"changeStartingHLSStream">>]
  /\ UNCHANGED <<mounted, isAndroid, meetingState, loading, peerTrackNodes,
                 localPeerTrackNode, miniViewPeerTrackNode, hmsLocalPeer,
                 hmsRoom, showChatView, ignoreHLSStreamPromise, notifications,
                 alerts, errorListener, previewListener, joinListener,
                 permissionsListener, pollSubscriptions,
                 whiteboardSubscriptions, whiteboard, polls, cuedPollIds, now,
                 joinPc, previewPc, didInitMeetingAction, initPc,
                 userNameValid,
                 autoInitDeps>>

\* hmsInstance.startHLSStreaming() rejects: the catch of startHLSStreaming
HLSStartRejected ==
  /\ hlsPending > 0
  /\ hlsPending' = hlsPending - 1
  /\ startingHLSStream' =
       IF ~ignoreHLSStreamPromise THEN FALSE ELSE startingHLSStream
  /\ last' = [Task("HLS_FAILED") EXCEPT
                !.dispatched = IF ~ignoreHLSStreamPromise
                               THEN <<"changeStartingHLSStream">> ELSE <<>>]
  /\ UNCHANGED <<mounted, isAndroid, meetingState, loading, peerTrackNodes,
                 localPeerTrackNode, miniViewPeerTrackNode, hmsLocalPeer,
                 hmsRoom, showChatView, ignoreHLSStreamPromise, notifications,
                 alerts, errorListener, previewListener, joinListener,
                 permissionsListener, pollSubscriptions,
                 whiteboardSubscriptions, whiteboard, polls, cuedPollIds, now,
                 joinPc, previewPc, didInitMeetingAction, initPc,
                 userNameValid,
                 autoInitDeps>>

----------------------------------------------------------------------------
(* joinMeeting, previewMeeting and the automatic preview or join *)

\* joinMeeting() up to its first await
joinMeeting ==
  /\ joinPc.getConfig + joinPc.screenOn < MaxPending
  /\ loading' = TRUE
  /\ joinPc' = [joinPc EXCEPT !.getConfig = @ + 1]

\* previewMeeting() up to its await
previewMeeting ==
  /\ previewPc < MaxPending
  /\ loading' = TRUE
  /\ previewPc' = previewPc + 1

\* disabledJoin without the look at loading
disabledJoinNameOnly == ~userNameValid

\* disabledJoin of HMSPreviewJoinButton
disabledJoin == ~userNameValid \/ loading

\* the user presses the join button of Preview
PressJoin ==
  /\ mounted
  /\ meetingState = IN_PREVIEW
  /\ ~disabledJoin
  /\ joinMeeting
  /\ last' = [Task("PRESS_JOIN") EXCEPT !.out = {"Keyboard.dismiss"}]
  /\ UNCHANGED <<mounted, isAndroid, meetingState, peerTrackNodes,
                 localPeerTrackNode, miniViewPeerTrackNode, hmsLocalPeer,
                 hmsRoom, showChatView, startingHLSStream, hlsPending,
                 ignoreHLSStreamPromise, notifications, alerts, errorListener,
                 previewListener, joinListener, permissionsListener,
                 pollSubscriptions, whiteboardSubscriptions, whiteboard,
                 polls, cuedPollIds, now, previewPc, didInitMeetingAction,
                 initPc, userNameValid,
                 autoInitDeps>>

\* the user edits the name in Preview
ChangeUserName(valid) ==
  /\ mounted
  /\ meetingState = IN_PREVIEW
  /\ userNameValid # valid
  /\ userNameValid' = valid
  /\ last' = Task("USER_NAME")
  /\ UNCHANGED <<mounted, isAndroid, meetingState, loading, peerTrackNodes,
                 localPeerTrackNode, miniViewPeerTrackNode, hmsLocalPeer,
                 hmsRoom, showChatView, startingHLSStream, hlsPending,
                 ignoreHLSStreamPromise, notifications, alerts, errorListener,
                 previewListener, joinListener, permissionsListener,
                 pollSubscriptions, whiteboardSubscriptions, whiteboard,
                 polls, cuedPollIds, now, joinPc, previewPc,
                 didInitMeetingAction, initPc,
                 autoInitDeps>>

\* getConfig() of a joinMeeting() resolves: join is issued
JoinConfigResolved ==
  /\ joinPc.getConfig > 0
  /\ joinPc' = [getConfig |-> joinPc.getConfig - 1,
                screenOn |-> joinPc.screenOn + 1]
  /\ last' = [Task("JOIN_CONFIG") EXCEPT
                !.out = {"join", "setAlwaysScreenOn"}]
  /\ UNCHANGED <<mounted, isAndroid, meetingState, loading, peerTrackNodes,
                 localPeerTrackNode, miniViewPeerTrackNode, hmsLocalPeer,
                 hmsRoom, showChatView, startingHLSStream, hlsPending,
                 ignoreHLSStreamPromise, notifications, alerts, errorListener,
                 previewListener, joinListener, permissionsListener,
                 pollSubscriptions, whiteboardSubscriptions, whiteboard,
                 polls, cuedPollIds, now, previewPc, didInitMeetingAction,
                 initPc, userNameValid,
                 autoInitDeps>>

\* the dialog of the catch of joinMeeting / previewMeeting
FailureAlert(kind) == [kind |-> kind, previewing |-> FALSE, at |-> None]

\* getConfig() of a joinMeeting() rejects, or join throws: the catch
JoinConfigRejected ==
  /\ joinPc.getConfig > 0
  /\ Len(alerts) < MaxAlerts
  /\ joinPc' = [joinPc EXCEPT !.getConfig = @ - 1]
  /\ alerts' = Append(alerts, FailureAlert("join"))
  /\ last' = [Task("JOIN_FAILED") EXCEPT !.out = {"alert"}]
  /\ UNCHANGED <<mounted, isAndroid, meetingState, loading, peerTrackNodes,
                 localPeerTrackNode, miniViewPeerTrackNode, hmsLocalPeer,
                 hmsRoom, showChatView, startingHLSStream, hlsPending,
                 ignoreHLSStreamPromise, notifications, errorListener,
                 previewListener, joinListener, permissionsListener,
                 pollSubscriptions, whiteboardSubscriptions, whiteboard,
                 polls, cuedPollIds, now, previewPc, didInitMeetingAction,
                 initPc, userNameValid,
                 autoInitDeps>>

\* setAlwaysScreenOn(true) settles; a rejection goes to the catch
ScreenOnSettled(ok) ==
  /\ joinPc.screenOn > 0
  /\ joinPc' = [joinPc EXCEPT !.screenOn = @ - 1]
  /\ IF ok
     THEN /\ alerts' = alerts
          /\ last' = Task("SCREEN_ON")
     ELSE /\ Len(alerts) < MaxAlerts
          /\ alerts' = Append(alerts, FailureAlert("join"))
          /\ last' = [Task("JOIN_FAILED") EXCEPT !.out = {"alert"}]
  /\ UNCHANGED <<mounted, isAndroid, meetingState, loading, peerTrackNodes,
                 localPeerTrackNode, miniViewPeerTrackNode, hmsLocalPeer,
                 hmsRoom, showChatView, startingHLSStream, hlsPending,
                 ignoreHLSStreamPromise, notifications, errorListener,
                 previewListener, joinListener, permissionsListener,
                 pollSubscriptions, whiteboardSubscriptions, whiteboard,
                 polls, cuedPollIds, now, previewPc, didInitMeetingAction,
                 initPc, userNameValid,
                 autoInitDeps>>

\* getConfig() of a previewMeeting() resolves: preview is issued
PreviewConfigResolved ==
  /\ previewPc > 0
  /\ previewPc' = previewPc - 1
  /\ last' = [Task("PREVIEW_CONFIG") EXCEPT !.out = {"preview"}]
  /\ UNCHANGED <<mounted, isAndroid, meetingState, loading, peerTrackNodes,
                 localPeerTrackNode, miniViewPeerTrackNode, hmsLocalPeer,
                 hmsRoom, showChatView, startingHLSStream, hlsPending,
                 ignoreHLSStreamPromise, notifications, alerts, errorListener,
                 previewListener, joinListener, permissionsListener,
                 pollSubscriptions, whiteboardSubscriptions, whiteboard,
                 polls, cuedPollIds, now, joinPc, didInitMeetingAction,
                 initPc, userNameValid,
                 autoInitDeps>>

\* getConfig() of a previewMeeting() rejects, or preview throws: the catch
PreviewConfigRejected ==
  /\ previewPc > 0
  /\ Len(alerts) < MaxAlerts
  /\ previewPc' = previewPc - 1
  /\ alerts' = Append(alerts, FailureAlert("preview"))
  /\ last' = [Task("PREVIEW_FAILED") EXCEPT !.out = {"alert"}]
  /\ UNCHANGED <<mounted, isAndroid, meetingState, loading, peerTrackNodes,
                 localPeerTrackNode, miniViewPeerTrackNode, hmsLocalPeer,
                 hmsRoom, showChatView, startingHLSStream, hlsPending,
                 ignoreHLSStreamPromise, notifications, errorListener,
                 previewListener, joinListener, permissionsListener,
                 pollSubscriptions, whiteboardSubscriptions, whiteboard,
                 polls, cuedPollIds, now, joinPc, didInitMeetingAction,
                 initPc, userNameValid,
                 autoInitDeps>>

\* handleMeetingPreviewOrJoin after its getConfig(): join when the preview
\* is skipped, preview otherwise
AutoInitConfigResolved(skipPreview) ==
  /\ initPc = "getConfig"
  /\ initPc' = "done"
  /\ IF skipPreview
     THEN /\ joinMeeting
          /\ previewPc' = previewPc
          /\ last' = [Task("AUTO_INIT") EXCEPT !.out = {"joinMeeting"}]
     ELSE /\ previewMeeting
          /\ joinPc' = joinPc
          /\ last' = [Task("AUTO_INIT") EXCEPT !.out = {"previewMeeting"}]
  /\ UNCHANGED <<mounted, isAndroid, meetingState, peerTrackNodes,
                 localPeerTrackNode, miniViewPeerTrackNode, hmsLocalPeer,
                 hmsRoom, showChatView, startingHLSStream, hlsPending,
                 ignoreHLSStreamPromise, notifications, alerts, errorListener,
                 previewListener, joinListener, permissionsListener,
                 pollSubscriptions, whiteboardSubscriptions, whiteboard,
                 polls, cuedPollIds, now, didInitMeetingAction,
                 userNameValid,
                 autoInitDeps>>

\* the getConfig() of handleMeetingPreviewOrJoin rejects: nothing catches it
AutoInitConfigRejected ==
  /\ initPc = "getConfig"
  /\ initPc' = "done"
  /\ last' = Task("AUTO_INIT_FAILED")
  /\ UNCHANGED <<mounted, isAndroid, meetingState, loading, peerTrackNodes,
                 localPeerTrackNode, miniViewPeerTrackNode, hmsLocalPeer,
                 hmsRoom, showChatView, startingHLSStream, hlsPending,
                 ignoreHLSStreamPromise, notifications, alerts, errorListener,
                 previewListener, joinListener, permissionsListener,
                 pollSubscriptions, whiteboardSubscriptions, whiteboard,
                 polls, cuedPollIds, now, joinPc, previewPc,
                 didInitMeetingAction, userNameValid,
                 autoInitDeps>>

\* the body of the automatic preview-or-join effect
AutoInitBody ==
  IF ~meetingEnded /\ ~didInitMeetingAction
  THEN /\ didInitMeetingAction' = TRUE
       /\ initPc' = "getConfig"
  ELSE UNCHANGED <<didInitMeetingAction, initPc>>

\* the effect runs again: meetingEnded, getConfig or updateConfig changed
AutoInitEffect ==
  /\ mounted
  /\ AutoInitBody
  /\ autoInitDeps' = meetingEnded
  /\ last' = [Task("AUTO_INIT_EFFECT") EXCEPT
                !.out = IF ~meetingEnded /\ ~didInitMeetingAction
                        THEN {"handleMeetingPreviewOrJoin"} ELSE {}]
  /\ UNCHANGED <<mounted, isAndroid, meetingState, loading, peerTrackNodes,
                 localPeerTrackNode, miniViewPeerTrackNode, hmsLocalPeer,
                 hmsRoom, showChatView, startingHLSStream, hlsPending,
                 ignoreHLSStreamPromise, notifications, alerts, errorListener,
                 previewListener, joinListener, permissionsListener,
                 pollSubscriptions, whiteboardSubscriptions, whiteboard, polls,
                 cuedPollIds, now, joinPc, previewPc, userNameValid>>

----------------------------------------------------------------------------
(* Poll and whiteboard updates, permission requests *)

Poll == [pollId : PollIDs, startedAt : StartTimes, byLocalPeer : BOOLEAN]

\* poll.startedAt && Date.now() - poll.startedAt.getTime() >= 20000
StartedLongAgo(poll) ==
  poll.startedAt # NoStart /\ now - poll.startedAt >= PollDelayMs

\* PollNotifies without the look in the store
PollNotifiesKnown(c, pollsData, poll, pollUpdateType) ==
  /\ pollUpdateType = "started"
  /\ IF c.isHLSViewer THEN StartedLongAgo(poll) ELSE TRUE

\* whether the callback, with closure c, notifies of this update
PollNotifies(c, pollsData, poll, pollUpdateType) ==
  /\ pollUpdateType = "started"
  /\ poll.pollId \notin pollsData
  /\ IF c.isHLSViewer THEN StartedLongAgo(poll) ELSE TRUE

PollNotification(poll) == [type |-> POLLS_AND_QUIZZES, poll |-> poll.pollId]

\* the callback of addPollUpdateListener, as subscribed with closure c
pollUpdateListener(c, poll, pollUpdateType) ==
  /\ polls' = polls \cup {poll.pollId}
  /\ IF PollNotifies(c, polls, poll, pollUpdateType)
     THEN /\ Len(notifications) < MaxNotifications
          /\ notifications' = Append(notifications, PollNotification(poll))
          /\ cuedPollIds' = IF c.isHLSViewer
                            THEN cuedPollIds \cup {poll.pollId}
                            ELSE cuedPollIds
     ELSE UNCHANGED <<notifications, cuedPollIds>>
  /\ last' = [Task("POLL_UPDATE") EXCEPT
                !.viewer = isHLSViewer, !.wasViewer = c.isHLSViewer,
                !.poll = poll.pollId, !.type = pollUpdateType,
                !.known = poll.pollId \in polls,
                !.old = StartedLongAgo(poll),
                !.out = IF poll.byLocalPeer /\ hmsLocalPeer # NoPeer
                        THEN {"sendHLSTimedMetadata"} ELSE {},
                !.dispatched =
                  <<"addPoll">>
                  \o (IF PollNotifies(c, polls, poll, pollUpdateType)
                      THEN <<"addNotification">>
                           \o (IF c.isHLSViewer
                               THEN <<"addCuedPollId">> ELSE <<>>)
                      ELSE <<>>)]

\* the SDK sends a poll update: the callback of a live subscription runs
OnPollUpdate(i, poll, pollUpdateType) ==
  /\ i \in DOMAIN pollSubscriptions
  /\ pollUpdateListener(pollSubscriptions[i], poll, pollUpdateType)
  /\ UNCHANGED <<mounted, isAndroid, meetingState, loading, peerTrackNodes,
                 localPeerTrackNode, miniViewPeerTrackNode, hmsLocalPeer,
                 hmsRoom, showChatView, startingHLSStream, hlsPending,
                 ignoreHLSStreamPromise, alerts, errorListener,
                 previewListener, joinListener, permissionsListener,
                 pollSubscriptions, whiteboardSubscriptions, whiteboard, now,
                 joinPc, previewPc, didInitMeetingAction, initPc,
                 autoInitDeps, userNameValid>>

\* PollEffectCleanup that removes nothing
PollEffectCleanupKeeps(subs) == subs

\* the cleanup of the poll effect removes the subscription the effect made
PollEffectCleanup(subs) == SubSeq(subs, 1, Len(subs) - 1)

\* PollResubscribe without the cleanup
PollResubscribeNoCleanup(subs, c) == Append(subs, c)

\* a re-run of the poll effect: the cleanup of the last run, then the body
PollResubscribe(subs, c) == Append(PollEffectCleanup(subs), c)

\* the poll effect runs again after a render with another isHLSViewer

PollEffect ==
  /\ mounted
  /\ pollSubscriptions # <<>>
  /\ pollSubscriptions[Len(pollSubscriptions)] # PollClosure
  /\ pollSubscriptions' = PollResubscribe(pollSubscriptions, PollClosure)
  /\ last' = Task("POLL_EFFECT")
  /\ UNCHANGED <<mounted, isAndroid, meetingState, loading, peerTrackNodes,
                 localPeerTrackNode, miniViewPeerTrackNode, hmsLocalPeer,
                 hmsRoom, showChatView, startingHLSStream, hlsPending,
                 ignoreHLSStreamPromise, notifications, alerts, errorListener,
                 previewListener, joinListener, permissionsListener,
                 whiteboardSubscriptions, whiteboard, polls, cuedPollIds, now,
                 joinPc, previewPc, didInitMeetingAction, initPc,
                 autoInitDeps, userNameValid>>

\* the SDK sends a whiteboard update
OnWhiteboardUpdate(updateType) ==
  /\ whiteboardSubscriptions > 0
  /\ whiteboard' = IF updateType = "STARTED" THEN "whiteboard" ELSE None
  /\ last' = [Task("WHITEBOARD_UPDATE") EXCEPT
                !.type = updateType, !.dispatched = <<"setWhiteboard">>]
  /\ UNCHANGED <<mounted, isAndroid, meetingState, loading, peerTrackNodes,
                 localPeerTrackNode, miniViewPeerTrackNode, hmsLocalPeer,
                 hmsRoom, showChatView, startingHLSStream, hlsPending,
                 ignoreHLSStreamPromise, notifications, alerts, errorListener,
                 previewListener, joinListener, permissionsListener,
                 pollSubscriptions, whiteboardSubscriptions, polls,
                 cuedPollIds, now, joinPc, previewPc, didInitMeetingAction,
                 initPc, autoInitDeps, userNameValid>>

\* the SDK asks for permissions (Android)
OnPermissionsRequested ==
  /\ permissionsListener
  /\ last' = [Task("ON_PERMISSIONS_REQUESTED") EXCEPT
                !.out = {"requestMultiple", "setPermissionsAcceptedOnAndroid"}]
  /\ UNCHANGED <<mounted, isAndroid, meetingState, loading, peerTrackNodes,
                 localPeerTrackNode, miniViewPeerTrackNode, hmsLocalPeer,
                 hmsRoom, showChatView, startingHLSStream, hlsPending,
                 ignoreHLSStreamPromise, notifications, alerts, errorListener,
                 previewListener, joinListener, permissionsListener,
                 pollSubscriptions, whiteboardSubscriptions, whiteboard,
                 polls, cuedPollIds, now, joinPc, previewPc,
                 didInitMeetingAction, initPc, autoInitDeps, userNameValid>>

\* Date.now() advances
Tick ==
  /\ now < MaxTicks * TickMs
  /\ now' = now + TickMs
  /\ last' = Task("TICK")
  /\ UNCHANGED <<mounted, isAndroid, meetingState, loading, peerTrackNodes,
                 localPeerTrackNode, miniViewPeerTrackNode, hmsLocalPeer,
                 hmsRoom, showChatView, startingHLSStream, hlsPending,
                 ignoreHLSStreamPromise, notifications, alerts, errorListener,
                 previewListener, joinListener, permissionsListener,
                 pollSubscriptions, whiteboardSubscriptions, whiteboard,
                 polls, cuedPollIds, joinPc, previewPc, didInitMeetingAction,
                 initPc, autoInitDeps, userNameValid>>

----------------------------------------------------------------------------
(* useHMSListeners(setPeerTrackNodes) *)

\* the room listeners add the node of a peer's track to the list
HMSListenersAddNode(peerId, track) ==
  /\ mounted
  /\ Len(peerTrackNodes) < MaxNodes
  /\ \A i \in DOMAIN peerTrackNodes :
       NodeKey(peerTrackNodes[i]) # <<peerId, track>>
  /\ peerTrackNodes' =
       Append(peerTrackNodes,
              PeerTrackNode(<<peerId, track>>, peerId, OldPeer, track))
  /\ last' = Task("ROOM_UPDATE")
  /\ UNCHANGED <<mounted, isAndroid, meetingState, loading,
                 localPeerTrackNode, miniViewPeerTrackNode, hmsLocalPeer,
                 hmsRoom, showChatView, startingHLSStream, hlsPending,
                 ignoreHLSStreamPromise, notifications, alerts, errorListener,
                 previewListener, joinListener, permissionsListener,
                 pollSubscriptions, whiteboardSubscriptions, whiteboard,
                 polls, cuedPollIds, now, joinPc, previewPc,
                 didInitMeetingAction, initPc, autoInitDeps, userNameValid>>

----------------------------------------------------------------------------
(* What is rendered *)

\* RenderedView with the loading indicator ahead of the meeting state
RenderedViewLoadingFirst ==
  IF loading THEN "FullScreenIndicator"
  ELSE IF meetingState = IN_PREVIEW THEN "Preview"
  ELSE IF meetingState = IN_MEETING THEN "Meeting"
  ELSE IF meetingState = MEETING_ENDED THEN "HMSMeetingEnded"
  ELSE "View"

\* the element HMSRoomSetup returns under the status bar
RenderedView ==
  IF meetingState = IN_PREVIEW THEN "Preview"
  ELSE IF meetingState = IN_MEETING THEN "Meeting"
  ELSE IF meetingState = MEETING_ENDED THEN "HMSMeetingEnded"
  ELSE IF loading THEN "FullScreenIndicator"
  ELSE "View"

\* the element Meeting returns
MeetingView ==
  IF startingHLSStream THEN "HMSHLSStreamLoading"
  ELSE IF isHLSViewer THEN "HLSViewerScreenContent"
  ELSE "MeetingScreenContent"

----------------------------------------------------------------------------
(* Mount and unmount *)

\* after the first render and its effects
Init ==
  /\ mounted = TRUE
  /\ isAndroid \in BOOLEAN
  /\ meetingState = NOT_JOINED
  /\ loading = FALSE
  /\ peerTrackNodes = <<>>
  /\ localPeerTrackNode = NoNode
  /\ miniViewPeerTrackNode = NoNode
  /\ hmsLocalPeer = NoPeer
  /\ hmsRoom = None
  /\ showChatView = FALSE
  /\ startingHLSStream = FALSE
  /\ hlsPending = 0
  /\ ignoreHLSStreamPromise = FALSE
  /\ notifications = <<>>
  /\ alerts = <<>>
  /\ errorListener = [on |-> TRUE, previewing |-> FALSE, meetingJoined |-> FALSE]
  /\ previewListener = TRUE
  /\ joinListener = TRUE
  /\ permissionsListener = isAndroid
  /\ pollSubscriptions = <<[isHLSViewer |-> FALSE]>>
  /\ whiteboardSubscriptions = 1
  /\ whiteboard = None
  /\ polls = {}
  /\ cuedPollIds = {}
  /\ now = 0
  /\ joinPc = [getConfig |-> 0, screenOn |-> 0]
  /\ previewPc = 0
  /\ didInitMeetingAction = TRUE
  /\ initPc = "getConfig"
  /\ autoInitDeps = FALSE
  /\ userNameValid = TRUE
  /\ last = NoTask

\* the same on Android (the platform only decides the permissions listener)
InitAndroid == Init /\ isAndroid = TRUE

\* the cleanups of the effects
Unmount ==
  /\ mounted
  /\ mounted' = FALSE
  /\ errorListener' = NoListener
  /\ previewListener' = FALSE
  /\ joinListener' = FALSE
  /\ permissionsListener' = FALSE
  /\ pollSubscriptions' = PollEffectCleanup(pollSubscriptions)
  /\ whiteboardSubscriptions' = whiteboardSubscriptions - 1
  /\ ignoreHLSStreamPromise' = TRUE
  /\ last' = [Task("UNMOUNT") EXCEPT
                !.joined = errorListener.meetingJoined,
                !.previewing = errorListener.previewing,
                !.wasViewer = pollSubscriptions # <<>>
                              /\ pollSubscriptions[Len(pollSubscriptions)]
                                   .isHLSViewer]
  /\ UNCHANGED <<isAndroid, meetingState, loading, peerTrackNodes,
                 localPeerTrackNode, miniViewPeerTrackNode, hmsLocalPeer,
                 hmsRoom, showChatView, startingHLSStream, hlsPending,
                 notifications, alerts, whiteboard, polls, cuedPollIds, now,
                 joinPc, previewPc, didInitMeetingAction, initPc,
                 autoInitDeps, userNameValid>>

----------------------------------------------------------------------------
(* Specifications *)

\* the local peer and the store configuration of the lifecycle specification
LifecyclePeers ==
  {p \in LocalPeers :
     p.videoTrack = "t1" /\ p.canPublish /\ ~p.hlsViewer}

LifecycleConfigs == {c \in JoinConfigs : ~c.inset /\ ~c.chatOpen /\ ~c.goLive}

\* the meeting's lifecycle: the SDK's events, the user's presses, the promises
\* of joinMeeting and previewMeeting, the error effect
Next ==
  \/ \E error \in HMSException : OnError(error)
  \/ PressAlertLeave
  \/ ErrorEffect
  \/ \E peer \in LifecyclePeers : OnPreview(peer)
  \/ \E peer \in LifecyclePeers, cfg \in LifecycleConfigs : OnJoin(peer, cfg)
  \/ PressJoin
  \/ JoinConfigResolved
  \/ JoinConfigRejected
  \/ \E ok \in BOOLEAN : ScreenOnSettled(ok)
  \/ PreviewConfigResolved
  \/ PreviewConfigRejected
  \/ \E skipPreview \in BOOLEAN : AutoInitConfigResolved(skipPreview)
  \/ AutoInitConfigRejected

Spec == InitAndroid /\ [][Next]_vars

\* the local peers and store configurations of the listener specification
ListenerPeers ==
  {p \in LocalPeers : p.videoTrack = "t1" /\ p.canPublish}

ListenerConfigs == {c \in JoinConfigs : ~c.inset /\ ~c.chatOpen}

\* the listeners: the events that change what the effects depend on, the
\* effects, the subscriptions' callbacks, the unmount
NextListeners ==
  \/ \E peer \in ListenerPeers : OnPreview(peer)
  \/ \E peer \in ListenerPeers, cfg \in ListenerConfigs : OnJoin(peer, cfg)
  \/ HLSStartResolved
  \/ HLSStartRejected
  \/ ErrorEffect
  \/ PollEffect
  \/ \E updateType \in {"STARTED", "STOPPED"} : OnWhiteboardUpdate(updateType)
  \/ OnPermissionsRequested
  \/ Unmount

SpecListeners == Init /\ [][NextListeners]_vars

\* the local peers and store configurations of the node list specification
NodePeers == LocalPeers

\* the (peer, track) pairs the room listeners add nodes for
NodeKeys ==
  ({LocalPeerID} \X (TrackIDs \cup {None})) \cup ({RemotePeerID} \X {"t1"})

NodeConfigs == {c \in JoinConfigs : ~c.chatOpen /\ ~c.goLive}

\* ON_JOIN with every local peer, over the lists the room listeners build
NextNodes ==
  \/ \E key \in NodeKeys : HMSListenersAddNode(key[1], key[2])
  \/ \E peer \in NodePeers, cfg \in NodeConfigs : OnJoin(peer, cfg)

SpecNodes == InitAndroid /\ [][NextNodes]_vars

\* poll updates, with the local peer's role changing between them
NextPolls ==
  \/ \E i \in DOMAIN pollSubscriptions, poll \in Poll,
        pollUpdateType \in PollUpdateTypes :
       OnPollUpdate(i, poll, pollUpdateType)
  \/ PollEffect
  \/ Tick
  \/ \E peer \in ListenerPeers, cfg \in LifecycleConfigs : OnJoin(peer, cfg)

SpecPolls == InitAndroid /\ [][NextPolls]_vars

\* the errors of the attempts specification: those that are not terminal (a
\* toast outside a meeting, with loading cleared)
AttemptErrors == {e \in HMSException : ~terminalError(e)}

\* the join and preview attempts: the automatic one and its effect, the
\* user's presses and name edits, the promises, the events that conclude them
NextAttempts ==
  \/ AutoInitEffect
  \/ \E skipPreview \in BOOLEAN : AutoInitConfigResolved(skipPreview)
  \/ AutoInitConfigRejected
  \/ PressJoin
  \/ \E valid \in BOOLEAN : ChangeUserName(valid)
  \/ JoinConfigResolved
  \/ JoinConfigRejected
  \/ \E ok \in BOOLEAN : ScreenOnSettled(ok)
  \/ PreviewConfigResolved
  \/ PreviewConfigRejected
  \/ \E peer \in LifecyclePeers : OnPreview(peer)
  \/ \E peer \in LifecyclePeers, cfg \in LifecycleConfigs : OnJoin(peer, cfg)
  \/ \E error \in AttemptErrors : OnError(error)
  \/ ErrorEffect
  \/ PressAlertLeave

SpecAttempts == InitAndroid /\ [][NextAttempts]_vars

\* what decides the view: the automatic preview or join and its failure, the
\* events, the user's join and Leave, the start of the HLS stream
NextViews ==
  \/ \E skipPreview \in BOOLEAN : AutoInitConfigResolved(skipPreview)
  \/ PreviewConfigResolved
  \/ PreviewConfigRejected
  \/ PressJoin
  \/ JoinConfigResolved
  \/ JoinConfigRejected
  \/ \E ok \in BOOLEAN : ScreenOnSettled(ok)
  \/ PressAlertLeave
  \/ \E peer \in ListenerPeers : OnPreview(peer)
  \/ \E peer \in ListenerPeers, cfg \in ListenerConfigs : OnJoin(peer, cfg)
  \/ HLSStartResolved
  \/ HLSStartRejected

SpecViews == InitAndroid /\ [][NextViews]_vars

----------------------------------------------------------------------------
(* Properties *)

\* how often a redux action is in a dispatch sequence
Dispatched(seq, type) == Cardinality({i \in DOMAIN seq : seq[i] = type})

\* the poll notifications in the queue for a poll id
PollNotifications(pollId) ==
  {i \in DOMAIN notifications :
     notifications[i].type = POLLS_AND_QUIZZES
     /\ notifications[i].poll = pollId}

\* C1: peerTrackNodes never holds two nodes with the same (peer, track) pair,
\* whatever list without duplicates the ON_JOIN events find and whatever local
\* peer and track they carry.
C1_NoDuplicateNodes ==
  \A i, j \in DOMAIN peerTrackNodes :
    i # j => NodeKey(peerTrackNodes[i]) # NodeKey(peerTrackNodes[j])

\* C1 witness: ON_JOIN has run on a list holding two nodes of the local peer
\* (two tracks) and has replaced the peer in both.
C1_Witness ==
  /\ last.ev = "ON_JOIN"
  /\ Cardinality({i \in DOMAIN peerTrackNodes :
                    /\ peerTrackNodes[i].peer = LocalPeerID
                    /\ peerTrackNodes[i].ver = NewPeer}) >= 2

\* C2 (as claimed): the meeting state only moves forward: once IN_MEETING it
\* never returns to IN_PREVIEW, once MEETING_ENDED it never returns to
\* IN_PREVIEW or IN_MEETING.
C2_MeetingStateForward ==
  [][/\ meetingState = IN_MEETING => meetingState' # IN_PREVIEW
     /\ meetingState = MEETING_ENDED =>
          meetingState' \notin {IN_PREVIEW, IN_MEETING}]_vars

\* C3: each event is one step of the meeting state machine: ON_PREVIEW
\* dispatches changeMeetingState once and leaves IN_PREVIEW, ON_JOIN dispatches
\* it once and leaves IN_MEETING, and hmsErrorHandler dispatches none and
\* leaves the meeting state as it found it.
C3_OneStepPerEvent ==
  /\ last.ev = "ON_PREVIEW" =>
       /\ Dispatched(last.dispatched, "changeMeetingState") = 1
       /\ meetingState = IN_PREVIEW
  /\ last.ev = "ON_JOIN" =>
       /\ Dispatched(last.dispatched, "changeMeetingState") = 1
       /\ meetingState = IN_MEETING
  /\ last.ev = "ON_ERROR" =>
       /\ Dispatched(last.dispatched, "changeMeetingState") = 0
       /\ meetingState = last.at

\* C3 witness: a terminal error was handled during preview and the state is
\* still IN_PREVIEW.
C3_Witness ==
  /\ last.ev = "ON_ERROR"
  /\ last.terminal
  /\ last.at = IN_PREVIEW
  /\ meetingState = IN_PREVIEW

\* the closure of the error handler that ran last was the current render's
CurrentClosure ==
  /\ last.joined = (last.at = IN_MEETING)
  /\ last.previewing = (last.at = IN_PREVIEW)

\* C4 (as claimed, of handlers whose closure is current): a terminal error
\* received during preview leads to leave and one received during an active
\* meeting to destroy, both from the Leave button of a dialog the handler
\* shows.
C4_TerminalErrorLeavesOrDestroys ==
  /\ (last.ev = "ON_ERROR" /\ CurrentClosure /\ last.terminal
        /\ last.at \in {IN_PREVIEW, IN_MEETING}) => last.out = {"alert"}
  /\ (last.ev = "ALERT_LEAVE" /\ last.terminal /\ last.errAt = IN_PREVIEW
        /\ last.previewing) => last.out = {"leave"}
  /\ (last.ev = "ALERT_LEAVE" /\ last.terminal /\ last.errAt = IN_MEETING) =>
       last.out = {"destroy"}

\* C4 (amended): a terminal error handled by a handler registered outside a
\* meeting shows a dialog, and only its Leave button calls leave (handler
\* registered during preview) or destroy (otherwise); a terminal error handled
\* by a handler registered during a meeting shows no dialog and calls neither:
\* it is queued as a TERMINAL_ERROR notification.
C4_TerminalErrorDialog ==
  /\ (last.ev = "ON_ERROR" /\ last.terminal /\ ~last.joined) =>
       /\ last.out = {"alert"}
       /\ alerts # <<>>
       /\ alerts[Len(alerts)] =
            [kind |-> "error", previewing |-> last.previewing,
             at |-> last.at]
       /\ meetingState = last.at
  /\ (last.ev = "ON_ERROR" /\ last.terminal /\ last.joined) =>
       /\ last.out = {}
       /\ last.dispatched = <<"addNotification">>
       /\ notifications # <<>>
       /\ notifications[Len(notifications)].type = TERMINAL_ERROR
       /\ meetingState = last.at
  /\ (last.ev = "ALERT_LEAVE" /\ last.terminal) =>
       last.out = {IF last.previewing THEN "leave" ELSE "destroy"}
  /\ last.out \cap {"leave", "destroy"} # {} => last.ev = "ALERT_LEAVE"

\* C4 witness: the user has confirmed the dialog of a terminal error that a
\* handler registered during preview received during preview: leave is called.
C4_Witness ==
  /\ last.ev = "ALERT_LEAVE"
  /\ last.terminal
  /\ last.previewing
  /\ last.errAt = IN_PREVIEW
  /\ last.out = {"leave"}
  /\ meetingState = MEETING_ENDED

\* C5 (as claimed, of handlers whose closure is current): a non-terminal
\* error received while IN_PREVIEW is a blocking dialog, not a toast.
C5_NonTerminalPreviewAlert ==
  (last.ev = "ON_ERROR" /\ CurrentClosure /\ ~last.terminal
     /\ last.at = IN_PREVIEW) =>
    last.out = {"alert"}

\* C5 (amended): a non-terminal error received while IN_PREVIEW never shows a
\* dialog: the handler clears loading and shows a transient toast, or, when it
\* was registered during a meeting, queues an ERROR notification.
C5_NonTerminalPreviewToast ==
  (last.ev = "ON_ERROR" /\ ~last.terminal /\ last.at = IN_PREVIEW) =>
    /\ "alert" \notin last.out
    /\ IF last.joined
       THEN /\ last.out = {}
            /\ last.dispatched = <<"addNotification">>
            /\ notifications # <<>>
            /\ notifications[Len(notifications)].type = ERROR
       ELSE /\ last.out = {"toast"}
            /\ last.dispatched = <<>>
            /\ ~loading

\* C5 witness: a non-terminal error was received while IN_PREVIEW by the
\* handler registered for preview, and a toast was shown.
C5_Witness ==
  /\ last.ev = "ON_ERROR"
  /\ ~last.terminal
  /\ last.at = IN_PREVIEW
  /\ last.previewing
  /\ last.out = {"toast"}

\* C6 (as claimed): a non-terminal error received while IN_MEETING is queued
\* as one ERROR notification, with no dialog or toast, no leave or destroy, and
\* the meeting state and loading unchanged.
C6_NonTerminalMeetingNotification ==
  (last.ev = "ON_ERROR" /\ ~last.terminal /\ last.at = IN_MEETING) =>
    /\ Dispatched(last.dispatched, "addNotification") = 1
    /\ notifications # <<>>
    /\ notifications[Len(notifications)].type = ERROR
    /\ last.out = {}
    /\ meetingState = last.at
    /\ loading = last.wasLoading

\* C7 (as claimed): the error handler decides on the meeting state of the
\* moment it is invoked: it takes the notification branch exactly when the
\* state is IN_MEETING, and its dialog's previewing is the state's.
C7_HandlerReadsCurrentState ==
  last.ev = "ON_ERROR" =>
    /\ last.joined = (last.at = IN_MEETING)
    /\ last.previewing = (last.at = IN_PREVIEW)

\* whether the poll update that ran last added a notification
Notified == Dispatched(last.dispatched, "addNotification") = 1

\* C8 (as claimed): for an HLS viewer, a 'started' update of a poll not yet in
\* the store adds a notification exactly when the poll started 20 s ago or
\* more.
C8_ViewerPollDelay ==
  (last.ev = "POLL_UPDATE" /\ last.viewer /\ last.type = "started"
     /\ ~last.known) =>
    (Notified <=> last.old)

\* C9 (as claimed): every poll id the listener has seen has exactly one
\* notification.
C9_ExactlyOncePerPoll ==
  \A pollId \in polls : Cardinality(PollNotifications(pollId)) = 1

\* C9 (amended): at most one notification per poll id: an update of a poll
\* that is already in the store never adds a notification.
C9_AtMostOncePerPoll ==
  /\ \A pollId \in PollIDs : Cardinality(PollNotifications(pollId)) <= 1
  /\ (last.ev = "POLL_UPDATE" /\ last.known) => ~Notified

\* C9 witness: a second 'started' update of a poll whose first one was
\* notified, with another poll in the store too.
C9_Witness ==
  /\ last.ev = "POLL_UPDATE"
  /\ last.type = "started"
  /\ last.known
  /\ Cardinality(PollNotifications(last.poll)) = 1
  /\ polls = PollIDs

\* C10: once the component has unmounted no listener of HMSRoomSetup is left:
\* the ON_ERROR, ON_PREVIEW, ON_JOIN and ON_PERMISSIONS_REQUESTED slots are
\* empty and no poll or whiteboard subscription is live.
C10_NoListenerAfterUnmount ==
  ~mounted =>
    /\ ~errorListener.on
    /\ ~previewListener
    /\ ~joinListener
    /\ ~permissionsListener
    /\ pollSubscriptions = <<>>
    /\ whiteboardSubscriptions = 0

\* C10 witness: on Android, the unmount removed an error handler and a poll
\* subscription that the effects had registered again (for a meeting, for an
\* HLS viewer).
C10_Witness ==
  /\ last.ev = "UNMOUNT"
  /\ ~mounted
  /\ isAndroid
  /\ last.joined
  /\ last.wasViewer

\* the indices of the nodes of a peer in a list, and of those with a track too
NodesOfPeer(nodes, peerId) == {i \in DOMAIN nodes : nodes[i].peer = peerId}

NodesOfPeerAndTrack(nodes, peerId, track) ==
  {i \in DOMAIN nodes : nodes[i].peer = peerId /\ nodes[i].track = track}

\* C14 (as claimed): when ON_JOIN has put the local peer's node in the
\* mini-view slot (inset enabled), the main list holds no node of the local
\* peer, whatever it held before the event.
C14_MiniViewOrMainList ==
  (last.ev = "ON_JOIN" /\ last.inset
     /\ Dispatched(last.dispatched, "setMiniViewPeerTrackNode") = 1) =>
    /\ miniViewPeerTrackNode.peer = LocalPeerID
    /\ NodesOfPeer(peerTrackNodes, miniViewPeerTrackNode.peer) = {}

\* C15: ON_JOIN updates the main list by exactly one of three cases: a node of
\* the local peer and its video track is replaced in place (same length, the
\* other nodes untouched); else the nodes of the local peer are replaced (same
\* length); else, when the tile may be created and inset is disabled, the new
\* node is prepended; in every other case the list is unchanged.
C15_JoinUpdaterCases ==
  [][last'.ev = "ON_JOIN" =>
       LET peer == hmsLocalPeer'
           track == hmsLocalPeer'.videoTrack
           prev == peerTrackNodes
           new == peerTrackNodes'
           sameTrack == NodesOfPeerAndTrack(prev, peer.id, track)
           samePeer == NodesOfPeer(prev, peer.id)
       IN  IF track # None /\ sameTrack # {}
           THEN /\ Len(new) = Len(prev)
                /\ \A i \in DOMAIN prev :
                     IF i \in sameTrack
                     THEN /\ NodeKey(new[i]) = <<peer.id, track>>
                          /\ new[i].id = prev[i].id
                          /\ new[i].ver = peer.ver
                     ELSE new[i] = prev[i]
           ELSE IF samePeer # {}
           THEN /\ Len(new) = Len(prev)
                /\ \A i \in DOMAIN prev :
                     IF i \in samePeer
                     THEN /\ new[i].peer = peer.id
                          /\ new[i].id = prev[i].id
                          /\ new[i].ver = peer.ver
                     ELSE new[i] = prev[i]
           ELSE IF peer.canPublish /\ ~peer.hlsViewer /\ ~last'.inset
           THEN /\ Len(new) = Len(prev) + 1
                /\ Head(new) = createPeerTrackNode(peer, track)
                /\ Tail(new) = prev
           ELSE new = prev]_vars

\* C15 witness: ON_JOIN, with inset disabled, has left the local peer's node
\* at the head of a list that also holds a remote peer's node.
C15_Witness ==
  /\ last.ev = "ON_JOIN"
  /\ ~last.inset
  /\ Len(peerTrackNodes) >= 2
  /\ peerTrackNodes[1] = createPeerTrackNode(hmsLocalPeer, hmsLocalPeer.videoTrack)
  /\ NodesOfPeer(peerTrackNodes, LocalPeerID) = {1}
  /\ NodesOfPeer(peerTrackNodes, RemotePeerID) # {}

\* C16: ON_JOIN sets or updates a node of the local peer (the store's
\* localPeerTrackNode, the mini-view slot, a new head of the main list) only
\* if the peer may publish and is not an HLS viewer; otherwise it creates no
\* local node anywhere; when it may, the store's localPeerTrackNode is set if
\* absent and updated if present.
C16_LocalNodeOnlyIfCanCreateTile ==
  [][last'.ev = "ON_JOIN" =>
       LET peer == hmsLocalPeer'
           d == last'.dispatched
       IN  IF peer.canPublish /\ ~peer.hlsViewer
           THEN /\ NodeKey(localPeerTrackNode') = <<peer.id, peer.videoTrack>>
                /\ localPeerTrackNode'.ver = peer.ver
                /\ IF localPeerTrackNode = NoNode
                   THEN /\ localPeerTrackNode' =
                             createPeerTrackNode(peer, peer.videoTrack)
                        /\ Dispatched(d, "setLocalPeerTrackNode") = 1
                        /\ Dispatched(d, "updateLocalPeerTrackNode") = 0
                   ELSE /\ localPeerTrackNode'.id = localPeerTrackNode.id
                        /\ Dispatched(d, "setLocalPeerTrackNode") = 0
                        /\ Dispatched(d, "updateLocalPeerTrackNode") = 1
           ELSE /\ localPeerTrackNode' = localPeerTrackNode
                /\ miniViewPeerTrackNode' = miniViewPeerTrackNode
                /\ Len(peerTrackNodes') = Len(peerTrackNodes)
                /\ Dispatched(d, "setLocalPeerTrackNode") = 0
                /\ Dispatched(d, "updateLocalPeerTrackNode") = 0
                /\ Dispatched(d, "setMiniViewPeerTrackNode") = 0]_vars

\* C16 witness: ON_JOIN of a peer that may publish but is an HLS viewer, with
\* a local node in the store from an earlier join and none in the main list.
C16_Witness ==
  /\ last.ev = "ON_JOIN"
  /\ hmsLocalPeer.canPublish
  /\ hmsLocalPeer.hlsViewer
  /\ localPeerTrackNode # NoNode
  /\ NodesOfPeer(peerTrackNodes, LocalPeerID) = {}
  /\ Dispatched(last.dispatched, "updateLocalPeerTrackNode") = 0

C18_NonViewerPollNotified ==
  /\ (last.ev = "POLL_UPDATE" /\ ~last.viewer /\ last.type = "started"
        /\ ~last.known) =>
       /\ Notified
       /\ Cardinality(PollNotifications(last.poll)) = 1
  /\ last.ev = "POLL_UPDATE" =>
       /\ last.poll \in polls
       /\ Dispatched(last.dispatched, "addPoll") = 1
       /\ Head(last.dispatched) = "addPoll"

\* C19 (as claimed, of error handlers whose closure is current): however a
\* join or preview attempt concludes, loading is false afterwards: after
\* ON_JOIN, after ON_PREVIEW, after an ON_ERROR outside a meeting, and after
\* a failure caught inside joinMeeting or previewMeeting.
C19_LoadingClearedOnConclusion ==
  /\ last.ev \in {"ON_JOIN", "ON_PREVIEW"} => ~loading
  /\ (last.ev = "ON_ERROR" /\ CurrentClosure /\ last.at # IN_MEETING) =>
       ~loading
  /\ last.ev \in {"JOIN_FAILED", "PREVIEW_FAILED"} => ~loading

\* where an update is in the steps of a handler (0: nowhere)
StepIndex(steps, name) ==
  IF \E i \in DOMAIN steps : steps[i] = name
  THEN CHOOSE i \in DOMAIN steps :
         steps[i] = name /\ \A j \in DOMAIN steps : steps[j] = name => i <= j
  ELSE 0

\* C20: in onJoinHandler the switch to IN_MEETING is the last update: the
\* loading flag is cleared, the local node updates are issued and the event's
\* room and local peer are stored before it, so the store never shows
\* IN_MEETING with the room or local peer of before the join.
C20_MeetingStateLast ==
  /\ last.ev = "ON_JOIN" =>
       LET steps == last.steps
           n == Len(last.steps)
       IN  /\ n > 0
           /\ steps[n] = "changeMeetingState"
           /\ StepIndex(steps, "changeMeetingState") = n
           /\ \A name \in {"setLoading", "setHMSRoomState",
                           "setHMSLocalPeerState", "setPeerTrackNodes"} :
                StepIndex(steps, name) \in 1..(n - 1)
           /\ (hmsLocalPeer.canPublish /\ ~hmsLocalPeer.hlsViewer) =>
                \E name \in {"setLocalPeerTrackNode",
                             "updateLocalPeerTrackNode"} :
                  StepIndex(steps, name) \in 1..(n - 1)
           /\ last.inset /\ hmsLocalPeer.canPublish /\ ~hmsLocalPeer.hlsViewer
                => StepIndex(steps, "setMiniViewPeerTrackNode") \in 1..(n - 1)
           /\ "startHLSStreaming" \in last.out =>
                StepIndex(steps, "changeStartingHLSStream") \in 1..(n - 1)
           /\ meetingState = IN_MEETING
           /\ ~loading
           /\ hmsRoom = NewPeer
           /\ hmsLocalPeer.ver = NewPeer
  /\ meetingState = IN_MEETING => (hmsRoom # None /\ hmsLocalPeer # NoPeer)

\* C20 witness: an ON_JOIN that went live has been handled: the store shows
\* IN_MEETING, the event's room and local peer, and the HLS start.
C20_Witness ==
  /\ last.ev = "ON_JOIN"
  /\ "startHLSStreaming" \in last.out
  /\ startingHLSStream
  /\ meetingState = IN_MEETING
  /\ hmsLocalPeer \in LocalPeers
  /\ localPeerTrackNode # NoNode

\* C11 (as claimed): the automatic preview-or-join is initiated at most
\* once: a re-run of the effect never starts handleMeetingPreviewOrJoin again,
\* and the one run calls exactly one of joinMeeting and previewMeeting.
C11_AutoInitOnce ==
  /\ didInitMeetingAction
  /\ last.ev = "AUTO_INIT_EFFECT" =>
       "handleMeetingPreviewOrJoin" \notin last.out
  /\ last.ev \in {"AUTO_INIT", "AUTO_INIT_FAILED"} =>
       /\ initPc = "done"
       /\ Cardinality(last.out \cap {"joinMeeting", "previewMeeting"}) = 1

C17_ViewSelection ==
  mounted =>
    /\ RenderedView \in {"Preview", "Meeting", "HMSMeetingEnded",
                         "FullScreenIndicator", "View"}
    /\ RenderedView = "Preview" <=> meetingState = IN_PREVIEW
    /\ RenderedView = "Meeting" <=> meetingState = IN_MEETING
    /\ RenderedView = "HMSMeetingEnded" <=> meetingState = MEETING_ENDED
    /\ RenderedView = "FullScreenIndicator" <=>
         (meetingState = NOT_JOINED /\ loading)
    /\ RenderedView = "View" <=> (meetingState = NOT_JOINED /\ ~loading)
    /\ meetingState = IN_MEETING =>
         /\ MeetingView = "HMSHLSStreamLoading" <=> startingHLSStream
         /\ MeetingView = "HLSViewerScreenContent" <=>
              (~startingHLSStream /\ hmsLocalPeer.hlsViewer)
         /\ MeetingView = "MeetingScreenContent" <=>
              (~startingHLSStream /\ ~hmsLocalPeer.hlsViewer)

\* C17 witness: an HLS viewer's ON_JOIN that goes live has been handled: the
\* Meeting is rendered and shows the HLS loading screen, not the viewer
\* content.
C17_Witness ==
  /\ mounted
  /\ last.ev = "ON_JOIN"
  /\ meetingState = IN_MEETING
  /\ RenderedView = "Meeting"
  /\ startingHLSStream
  /\ hmsLocalPeer.hlsViewer
  /\ MeetingView = "HMSHLSStreamLoading"

\* C21: ON_JOIN with shouldGoLive sets startingHLSStream; a failure of the
\* HLS start resets it while the component is mounted and leaves it alone
\* after the unmount (ignoreHLSStreamPromise set); ON_JOIN without
\* shouldGoLive does not touch startingHLSStream.
C21_StartingHLSStream ==
  [][/\ last'.ev = "ON_JOIN" =>
          IF "startHLSStreaming" \in last'.out
          THEN /\ startingHLSStream'
               /\ hlsPending' = hlsPending + 1
               /\ Dispatched(last'.dispatched, "changeStartingHLSStream") = 1
          ELSE /\ startingHLSStream' = startingHLSStream
               /\ hlsPending' = hlsPending
               /\ Dispatched(last'.dispatched, "changeStartingHLSStream") = 0
     /\ last'.ev = "HLS_FAILED" =>
          IF mounted
          THEN /\ ~ignoreHLSStreamPromise
               /\ ~startingHLSStream'
          ELSE /\ ignoreHLSStreamPromise
               /\ startingHLSStream' = startingHLSStream
               /\ last'.dispatched = <<>>
     /\ last'.ev = "UNMOUNT" => ignoreHLSStreamPromise']_vars

\* C21 witness: the HLS start of a join that went live failed after the
\* unmount, and startingHLSStream is still set.
C21_Witness ==
  /\ last.ev = "HLS_FAILED"
  /\ ~mounted
  /\ ignoreHLSStreamPromise
  /\ startingHLSStream
  /\ hlsPending = 0
  /\ meetingState = IN_MEETING

\* C22: while the component is mounted each SDK event type has one handler
\* and each interactivity update one subscription: a re-run of the error or
\* poll effect removes the handler of the last run before it adds the new one,
\* which carries the values of the current render.
C22_OneHandlerPerEvent ==
  /\ mounted =>
       /\ errorListener.on
       /\ previewListener
       /\ joinListener
       /\ Len(pollSubscriptions) = 1
       /\ whiteboardSubscriptions = 1
  /\ Len(pollSubscriptions) <= 1
  /\ whiteboardSubscriptions <= 1
  /\ last.ev = "ERROR_EFFECT" => errorListener = ErrorClosure
  /\ last.ev = "POLL_EFFECT" => pollSubscriptions = <<PollClosure>>

\* C22 witness: the poll effect has run again for an HLS viewer in a meeting,
\* after the error effect had run again too: one subscription, one handler.
C22_Witness ==
  /\ mounted
  /\ last.ev = "POLL_EFFECT"
  /\ pollSubscriptions = <<[isHLSViewer |-> TRUE]>>
  /\ errorListener.on
  /\ errorListener.meetingJoined
  /\ meetingState = IN_MEETING

====
